---- MODULE Spec2Model ----
(***************************************************************************)
(* Model of the pull .ini parser of config-ini (src/src/ini_parser.cpp).   *)
(*                                                                         *)
(* Strings are sequences of one-character strings.  The input stream is    *)
(* the std::istream the parser borrows: its content, its read index and    *)
(* its iostate bits.  One advance() call is one step of the model; the     *)
(* state functions of the parser are operators over a record m that holds  *)
(* everything one call reads and writes: the stream (i, eofbit, failbit,   *)
(* badbit), the parser members (state_, line_, pos_), the caller's event   *)
(* (type, value), the character last returned by get_char (c), the value   *)
(* the call returns (ret) and whether the call has assigned e.type         *)
(* (assigned).  The record also carries the content of the stream (src),   *)
(* how many characters are pushed back and not read again (back), whether  *)
(* the last operation on the stream was a read (fresh), and what the       *)
(* put_back calls of this advance call did (pb_count, pb_eof, pb_other,    *)
(* pb_max).                                                                *)
(***************************************************************************)
EXTENDS Integers, Sequences, FiniteSets, TLC

VARIABLES
    input,               \* content of the character stream
    doc,                 \* the lines the input was rendered from (<<>> if none)
    filename_,           \* parser::filename_
    putback_clears_eof,  \* istream::putback clears eofbit first (C++11) or not (C++98)
    in_,                 \* parser::in_: [i, eofbit, failbit, badbit, back, fresh]
    state_,              \* parser::state_
    line_,               \* parser::line_
    pos_,                \* parser::pos_
    e,                   \* the caller's event record: [type, value]
    ret,                 \* value returned by the last advance call
    log                  \* one entry per advance call made so far

vars == <<input, doc, filename_, putback_clears_eof, in_, state_, line_, pos_, e, ret, log>>

----------------------------------------------------------------------------
(* Bounds *)

MaxLen == 3

MaxCalls == 9

MaxLines == 2

\* digits of a line or column number in an error message
MaxDigits == 2

----------------------------------------------------------------------------
(* Characters *)

CR == "\r"

LF == "\n"

TAB == "\t"

VT == "\\v"

FF == "\f"

\* (char) of traits::eof(), what in_.get() yields when it reads nothing
EofChar == "\\377"

isspace(ch) == ch \in {" ", TAB, LF, CR, VT, FF}

Digits == {"0", "1", "2", "3", "4", "5", "6", "7", "8", "9"}

Letters ==
    {"a", "b", "c", "d", "e", "f", "g", "h", "i", "j", "k", "l", "m",
     "n", "o", "p", "q", "r", "s", "t", "u", "v", "w", "x", "y", "z",
     "A", "B", "C", "D", "E", "F", "G", "H", "I", "J", "K", "L", "M",
     "N", "O", "P", "Q", "R", "S", "T", "U", "V", "W", "X", "Y", "Z"}

isalnum(ch) == ch \in Letters \cup Digits

EVENT_SECTION == "SECTION"

EVENT_NAME == "NAME"

EVENT_VALUE == "VALUE"

EVENT_ERROR == "ERROR"

EVENT_END == "END"

event_type == {EVENT_SECTION, EVENT_NAME, EVENT_VALUE, EVENT_ERROR, EVENT_END}

\* values of parser::state_ (advance_section and advance_param are never stored)
advance_gen_state == "advance_gen"

advance_value_state == "advance_value"

advance_eof_state == "advance_eof"

----------------------------------------------------------------------------
(* std::istream *)

istream_good(m) == ~m.eofbit /\ ~m.failbit /\ ~m.badbit

istream_fail(m) == m.failbit \/ m.badbit

\* in_.get(): the sentry fails on a stream that is not good
istream_get(m) ==
    IF ~istream_good(m)
    THEN [m EXCEPT !.failbit = TRUE, !.c = EofChar, !.fresh = TRUE]
    ELSE IF m.i < Len(m.src)
         THEN [m EXCEPT !.i = @ + 1, !.c = m.src[m.i + 1], !.fresh = TRUE,
                        !.back = IF @ > 0 THEN @ - 1 ELSE 0]
         ELSE [m EXCEPT !.eofbit = TRUE, !.failbit = TRUE, !.c = EofChar,
                        !.fresh = TRUE]

\* in_.putback(ch)
istream_putback(m, ch) ==
    LET m1 == IF putback_clears_eof THEN [m EXCEPT !.eofbit = FALSE] ELSE m
    IN  IF ~istream_good(m1)
        THEN [m1 EXCEPT !.failbit = TRUE]
        ELSE IF m1.i > 0 /\ m1.src[m1.i] = ch
             THEN [m1 EXCEPT !.i = @ - 1, !.back = @ + 1,
                             !.pb_max = IF m1.back + 1 > @ THEN m1.back + 1 ELSE @]
             ELSE [m1 EXCEPT !.badbit = TRUE]

----------------------------------------------------------------------------
(* Helpers of the parser *)

\* a trim_right that erases nothing
trim_right_none(s) == s

RECURSIVE trim_right(_)
trim_right(s) ==
    IF Len(s) > 0 /\ isspace(s[Len(s)])
    THEN trim_right(SubSeq(s, 1, Len(s) - 1))
    ELSE s

get_char(m) == istream_get([m EXCEPT !.pos_ = @ + 1])

put_back(m, ch) ==
    istream_putback([m EXCEPT !.pos_ = @ - 1,
                              !.pb_count = @ + 1,
                              !.pb_eof = @ \/ (m.fresh /\ m.c = EofChar),
                              !.pb_other = @ \/ ~m.fresh \/ ch /= m.c,
                              !.fresh = FALSE], ch)

check_lf(m) ==
    LET m1 == get_char(m)
    IN  IF m1.c /= LF THEN put_back(m1, m1.c) ELSE m1

handle_new_line(m) == [m EXCEPT !.pos_ = 0, !.line_ = @ + 1]

RECURSIVE skip_ws_loop(_)
skip_ws_loop(m) ==
    IF istream_fail(m)
    THEN m
    ELSE LET m1 == get_char(m)
         IN  IF isspace(m1.c) THEN skip_ws_loop(m1) ELSE m1

skip_ws_none(m) == m

skip_ws(m) ==
    LET m1 == skip_ws_loop(m)
    IN  IF istream_good(m1) THEN put_back(m1, m1.c) ELSE m1

Digit(d) == <<"0", "1", "2", "3", "4", "5", "6", "7", "8", "9">>[d + 1]

\* operator<<(std::size_t)
RECURSIVE ToDecimal(_)
ToDecimal(n) ==
    IF n < 10 THEN <<Digit(n)>> ELSE ToDecimal(n \div 10) \o <<Digit(n % 10)>>

\* what str() gives after writing msg into an ostringstream constructed from old
ostringstream_write(old, msg) ==
    IF Len(old) > Len(msg)
    THEN msg \o SubSeq(old, Len(msg) + 1, Len(old))
    ELSE msg

UnexpectedTokenText ==
    <<":", " ", "U", "n", "e", "x", "p", "e", "c", "t", "e", "d", " ",
      "t", "o", "k", "e", "n", ":", " ">>

ErrorMessage(fname, line, pos, desc) ==
    fname \o <<":">> \o ToDecimal(line) \o <<":">> \o ToDecimal(pos)
          \o UnexpectedTokenText \o desc

unexpected_token(m, desc) ==
    [m EXCEPT !.type = EVENT_ERROR, !.assigned = TRUE,
              !.value = ostringstream_write(m.value,
                            ErrorMessage(filename_, m.line_, m.pos_, desc))]

DescEndOfFile == <<"e", "n", "d", " ", "o", "f", " ", "f", "i", "l", "e">>

DescEndOfLine == <<"e", "n", "d", " ", "o", "f", " ", "l", "i", "n", "e">>

DescNewLine == <<"n", "e", "w", " ", "l", "i", "n", "e">>

DescComment == <<"c", "o", "m", "m", "e", "n", "t">>

DescBracket == <<"]">>

\* a description that leaves the character out
DescSymbol_no_char(ch) == <<"s", "y", "m", "b", "o", "l">>

DescSymbol(ch) == <<"s", "y", "m", "b", "o", "l", " ", "'", ch, "'">>

----------------------------------------------------------------------------
(* State functions *)

\* an advance_eof that leaves the text of the event as it was
advance_eof_keeps_text(m) ==
    [m EXCEPT !.state_ = advance_eof_state, !.type = EVENT_END,
              !.assigned = TRUE, !.ret = FALSE]

advance_eof(m) ==
    [m EXCEPT !.state_ = advance_eof_state, !.type = EVENT_END,
              !.assigned = TRUE, !.value = <<>>, !.ret = FALSE]

\* a handle_eof that does not enter advance_eof
handle_eof_no_transition(m) == m

handle_eof(m) == IF m.eofbit THEN advance_eof(m) ELSE m

\* returns in m.ret
RECURSIVE skip_comment(_)
skip_comment(m) ==
    LET m1 == get_char(m)
    IN  CASE m1.c = CR ->
               LET m2 == handle_new_line(check_lf(m1))
               IN  [m2 EXCEPT !.ret = istream_good(m2)]
          [] m1.c = LF ->
               LET m2 == handle_new_line(m1)
               IN  [m2 EXCEPT !.ret = istream_good(m2)]
          [] OTHER ->
               IF istream_fail(m1) THEN [m1 EXCEPT !.ret = FALSE]
               ELSE skip_comment(m1)

RECURSIVE advance_section_loop(_)
advance_section_loop(m) ==
    LET m1 == get_char(m)
    IN  IF m1.eofbit
        THEN [unexpected_token(handle_eof(m1), DescEndOfFile) EXCEPT !.ret = FALSE]
        ELSE CASE m1.c = ";" ->
                    [unexpected_token(m1, DescComment) EXCEPT !.ret = FALSE]
               [] m1.c \in {CR, LF} ->
                    [unexpected_token(m1, DescEndOfLine) EXCEPT !.ret = FALSE]
               [] m1.c = "]" ->
                    LET m2 == IF m1.value = <<>>
                              THEN unexpected_token(m1, DescBracket)
                              ELSE [m1 EXCEPT !.type = EVENT_SECTION,
                                              !.assigned = TRUE]
                    IN  [m2 EXCEPT !.state_ = advance_gen_state,
                                   !.value = trim_right(@),
                                   !.ret = TRUE]
               [] OTHER ->
                    advance_section_loop([m1 EXCEPT !.value = Append(@, m1.c)])

advance_section(m) ==
    advance_section_loop(skip_ws([m EXCEPT !.value = <<>>]))

RECURSIVE advance_param_loop(_)
advance_param_loop(m) ==
    LET m1 == get_char(m)
    IN  IF m1.eofbit
        THEN [unexpected_token([m1 EXCEPT !.state_ = advance_eof_state],
                               DescEndOfLine) EXCEPT !.ret = FALSE]
        ELSE CASE m1.c = ";" ->
                    [unexpected_token(m1, DescComment) EXCEPT !.ret = FALSE]
               [] m1.c = CR ->
                    [unexpected_token(check_lf(m1), DescNewLine) EXCEPT !.ret = FALSE]
               [] m1.c = LF ->
                    [unexpected_token(m1, DescNewLine) EXCEPT !.ret = FALSE]
               [] m1.c = "=" ->
                    [m1 EXCEPT !.state_ = advance_value_state,
                               !.type = EVENT_NAME,
                               !.assigned = TRUE,
                               !.value = trim_right(@),
                               !.ret = TRUE]
               [] OTHER ->
                    advance_param_loop([m1 EXCEPT !.value = Append(@, m1.c)])

advance_param(m) == advance_param_loop([m EXCEPT !.value = <<>>])

RECURSIVE advance_gen(_)
advance_gen(m) ==
    LET m1 == get_char(m)
    IN  IF m1.eofbit
        THEN handle_eof(m1)
        ELSE CASE m1.c = CR -> advance_gen(handle_new_line(check_lf(m1)))
               [] m1.c = LF -> advance_gen(handle_new_line(m1))
               [] m1.c = ";" ->
                    LET m2 == skip_comment(m1)
                    IN  IF ~m2.ret THEN m2 ELSE advance_gen(m2)
               [] m1.c = "[" -> advance_section(m1)
               [] OTHER ->
                    IF isspace(m1.c) THEN advance_gen(m1)
                    ELSE IF isalnum(m1.c) THEN advance_param(put_back(m1, m1.c))
                    ELSE [unexpected_token(m1, DescSymbol(m1.c)) EXCEPT !.ret = FALSE]

advance_value_done_false(m) ==
    [m EXCEPT !.type = EVENT_VALUE, !.assigned = TRUE,
              !.value = trim_right(@), !.ret = FALSE]

advance_value_done(m) ==
    [m EXCEPT !.type = EVENT_VALUE, !.assigned = TRUE,
              !.value = trim_right(@), !.ret = TRUE]

RECURSIVE advance_value_loop(_)
advance_value_loop(m) ==
    LET m1 == get_char(m)
    IN  IF m1.eofbit
        THEN advance_value_done([m1 EXCEPT !.state_ = advance_eof_state])
        ELSE CASE m1.c = CR ->
                    advance_value_done([handle_new_line(check_lf(m1))
                                           EXCEPT !.state_ = advance_gen_state])
               [] m1.c = LF ->
                    advance_value_done([handle_new_line(m1)
                                           EXCEPT !.state_ = advance_gen_state])
               [] m1.c = ";" ->
                    LET m2 == skip_comment(m1)
                    IN  advance_value_done(
                            [m2 EXCEPT !.state_ = IF ~m2.ret THEN advance_eof_state
                                                  ELSE advance_gen_state])
               [] OTHER ->
                    advance_value_loop([m1 EXCEPT !.value = Append(@, m1.c)])

advance_value(m) == advance_value_loop(skip_ws([m EXCEPT !.value = <<>>]))

--------------------------------------------------------------------------------------------------------------------------------------------------
(* Inputs *)

Alphabet == {"[", "]", ";", "=", " ", LF, CR, "a"}

RawInputs == UNION {[1..n -> Alphabet] : n \in 0..MaxLen}

\* content of test_simple_event_sequence
TestSimpleContent ==
    <<"[", "s", "e", "c", "t", "i", "o", "n", "]", CR, LF, "p", "a", "r",
      "a", "m", "1", "=", "v", "a", "l", "u", "e", "1", CR, LF, ";", " ",
      "s", "o", "m", "e", " ", "c", "o", "m", "m", "e", "n", "t", CR, LF,
      "p", "a", "r", "a", "m", "2", " ", "=", " ", "v", "a", "l", "u", "e",
      "2", " ", CR, LF, TAB, LF, "[", " ", "s", "e", "c", "t", "i", "o",
      "n", " ", "2", " ", "]", " ", ";", "c", "o", "m", "m", "e", "n", "t",
      LF, "p", "a", "r", "a", "m", "3", " ", "=", " ", "v", "a", "l", "u",
      "e", "3", " ", ";", " ", "i", "n", "l", "i", "n", "e", " ", "c", "o",
      "m", "m", "e", "n", "t">>

\* input of test_unexpected_end_of_section
TestUnterminatedSection ==
    <<"[", "s", "e", "c", "t", "i", "o", "n">>

\* input of test_unexpected_starting_symbol
TestStartingSymbol ==
    <<LF, "!", "s", "e", "c", "t", "i", "o", "n", "!", LF>>

EmptyValueAtEof ==
    <<"k", "=">>

InlineComment ==
    <<"k", "=", "v", " ", ";", " ", "t", "a", "i", "l">>

CrLfLines ==
    <<"[", "a", "]", CR, LF, "k", "=", "v", CR, LF>>

BareCrLines ==
    <<"[", "a", "]", CR, "k", "=", "v", CR>>

EmptyValueThenLine ==
    <<"k", "=", LF, "b", "=", "v">>

ErrorThenSection ==
    <<"!", LF, "[", "a", "]">>

CommentAtEof ==
    <<"[", "a", "]", LF, ";", "c">>

SectionIni ==
    <<"s", "e", "c", "t", "i", "o", "n", ".", "i", "n", "i">>

\* a section header with a name longer than any error message
LongHeader == <<"[">> \o [k \in 1..48 |-> "x"] \o <<";">>

\* a header whose name and ']' stand on the line after '['
HeaderOverTwoLines == <<"[", LF, "a", "]">>

\* a section, an assignment with an empty value, and another assignment
EmptyValueThenPair ==
    <<"[", "s", "]", "k", "=", ";", LF, "j", "=", "v">>

ScenarioInputs ==
    {TestSimpleContent, TestUnterminatedSection, TestStartingSymbol,
     EmptyValueAtEof, InlineComment, CrLfLines, BareCrLines,
     EmptyValueThenLine, ErrorThenSection, CommentAtEof, LongHeader,
     HeaderOverTwoLines, EmptyValueThenPair}

\* Well-formed documents: lines of the grammar, each with its terminator
LineKinds ==
    {"blank", "space", "comment", "section", "section_c", "assign", "assign_c"}

LineText(kind) ==
    CASE kind = "blank" -> <<>>
      [] kind = "space" -> <<" ", TAB>>
      [] kind = "comment" -> <<";", "c">>
      [] kind = "section" -> <<"[", "s", "]">>
      [] kind = "section_c" -> <<"[", " ", "s", " ", "]", " ", ";", "c">>
      [] kind = "assign" -> <<"k", "=", "v">>
      [] kind = "assign_c" -> <<" ", "k", " ", "=", " ", "v", " ", ";", "c">>

LineEvents(kind) ==
    CASE kind \in {"section", "section_c"} ->
             <<[type |-> EVENT_SECTION, value |-> <<"s">>]>>
      [] kind \in {"assign", "assign_c"} ->
             <<[type |-> EVENT_NAME, value |-> <<"k">>],
               [type |-> EVENT_VALUE, value |-> <<"v">>]>>
      [] OTHER -> <<>>

Terminators == {<<LF>>, <<CR, LF>>, <<CR>>}

\* only the last line may lack its terminator
Documents ==
    UNION {{d \in [1..n -> [kind : LineKinds, term : Terminators \cup {<<>>}]] :
               \A j \in 1..(n - 1) : d[j].term /= <<>>} : n \in 0..MaxLines}

RECURSIVE Render(_)
Render(d) ==
    IF d = <<>> THEN <<>>
    ELSE LineText(Head(d).kind) \o Head(d).term \o Render(Tail(d))

RECURSIVE Expected(_)
Expected(d) ==
    IF d = <<>> THEN <<>> ELSE LineEvents(Head(d).kind) \o Expected(Tail(d))

Unknown == <<"(", "U", "n", "k", "n", "o", "w", "n", ")">>

\* text left in the caller's event record by an earlier use
StaleText == [k \in 1..60 |-> "z"]

----------------------------------------------------------------------------
(* The parser as a state machine: one step per advance call *)

\* the record a call works on: a parser p over the stream content src, and
\* the caller's event ev
MachineOf(src, p, ev) ==
    [src |-> src, i |-> p.in_.i, eofbit |-> p.in_.eofbit,
     failbit |-> p.in_.failbit, badbit |-> p.in_.badbit,
     back |-> p.in_.back, fresh |-> p.in_.fresh,
     state_ |-> p.state_, line_ |-> p.line_, pos_ |-> p.pos_,
     type |-> ev.type, value |-> ev.value, c |-> EofChar, ret |-> FALSE,
     assigned |-> FALSE, pb_count |-> 0, pb_eof |-> FALSE, pb_other |-> FALSE,
     pb_max |-> 0]

Machine ==
    MachineOf(input, [in_ |-> in_, state_ |-> state_, line_ |-> line_,
                      pos_ |-> pos_], e)

StreamOf(m) ==
    [i |-> m.i, eofbit |-> m.eofbit, failbit |-> m.failbit, badbit |-> m.badbit,
     back |-> m.back, fresh |-> m.fresh]

\* std::istringstream is(content)
NewStream ==
    [i |-> 0, eofbit |-> FALSE, failbit |-> FALSE, badbit |-> FALSE,
     back |-> 0, fresh |-> FALSE]

Return(m) ==
    /\ in_' = StreamOf(m)
    /\ state_' = m.state_
    /\ line_' = m.line_
    /\ pos_' = m.pos_
    /\ e' = [type |-> m.type, value |-> m.value]
    /\ ret' = m.ret
    /\ log' = Append(log, [ret |-> m.ret, type |-> m.type, value |-> m.value,
                           wrote |-> m.assigned,
                           from |-> state_, at |-> in_.i, before |-> e,
                           to |-> m.state_, end |-> m.i,
                           line0 |-> line_, pos0 |-> pos_,
                           line |-> m.line_, pos |-> m.pos_,
                           pb_count |-> m.pb_count, pb_eof |-> m.pb_eof,
                           pb_other |-> m.pb_other, pb_max |-> m.pb_max])
    /\ UNCHANGED <<input, doc, filename_, putback_clears_eof>>

\* parser(std::istream &) over a short input, with a default-constructed event
InitRaw ==
    /\ input \in RawInputs
    /\ doc = <<>>
    /\ filename_ = Unknown
    /\ e \in [type : event_type, value : {<<>>}]

\* parser(filename, std::istream &) or parser(std::istream &) over the
\* inputs of the tests and scenarios, with an event the caller may have used
InitScenario ==
    /\ input \in ScenarioInputs
    /\ doc = <<>>
    /\ filename_ \in {Unknown, SectionIni}
    /\ e \in [type : event_type, value : {<<>>, StaleText}]

InitDocument ==
    /\ doc \in Documents
    /\ input = Render(doc)
    /\ filename_ = Unknown
    /\ e \in [type : {EVENT_END, EVENT_VALUE}, value : {<<>>}]

Init ==
    /\ InitRaw \/ InitScenario \/ InitDocument
    /\ putback_clears_eof \in BOOLEAN
    /\ in_ = NewStream
    /\ state_ = advance_gen_state
    /\ line_ = 0
    /\ pos_ = 0
    /\ ret = FALSE
    /\ log = <<>>

AdvanceGen ==
    /\ Len(log) < MaxCalls
    /\ state_ = advance_gen_state
    /\ Return(advance_gen(Machine))

AdvanceValue ==
    /\ Len(log) < MaxCalls
    /\ state_ = advance_value_state
    /\ Return(advance_value(Machine))

AdvanceEof ==
    /\ Len(log) < MaxCalls
    /\ state_ = advance_eof_state
    /\ Return(advance_eof(Machine))

Next == AdvanceGen \/ AdvanceValue \/ AdvanceEof

Spec == Init /\ [][Next]_vars

----------------------------------------------------------------------------
(* Properties *)

Calls == 1..Len(log)

Successful == {EVENT_SECTION, EVENT_NAME, EVENT_VALUE}

IsPrefix(p, s) == Len(p) <= Len(s) /\ SubSeq(s, 1, Len(p)) = p

Contains(s, t) ==
    \E j \in 0..(Len(s) - Len(t)) : SubSeq(s, j + 1, j + Len(t)) = t

IsEnd(r) == ~r.ret /\ r.wrote /\ r.type = EVENT_END /\ r.value = <<>>

\* C1: an advance call returns true exactly when the event it leaves in e is
\* a Section, Name or Value, and a call that returns false has written Error
\* or End into e during that call.
C1_ReturnMatchesKind ==
    \A k \in Calls :
        /\ log[k].ret <=> log[k].type \in Successful
        /\ ~log[k].ret => (log[k].wrote /\ log[k].type \in {EVENT_ERROR, EVENT_END})

\* C2: a call that produces an Error event leaves the parser in Eof, and every
\* later call returns false with (End, "").
C2_ErrorsAreTerminal ==
    \A k \in Calls :
        (log[k].wrote /\ log[k].type = EVENT_ERROR) =>
            /\ log[k].to = advance_eof_state
            /\ \A j \in Calls : j > k => IsEnd(log[j])

\* C3: a call made in state Eof writes (End, ""), returns false and stays in
\* Eof, and a call that produced the End event has left the parser in Eof.
C3_EofIsTerminal ==
    \A k \in Calls :
        /\ log[k].from = advance_eof_state =>
               (IsEnd(log[k]) /\ log[k].to = advance_eof_state)
        /\ (log[k].wrote /\ log[k].type = EVENT_END) =>
               log[k].to = advance_eof_state

\* the call in Eof had a Value text to clear, and another call in Eof followed
C3_Witness ==
    \E k \in Calls :
        /\ k + 1 \in Calls
        /\ log[k].from = advance_eof_state
        /\ log[k].before.type = EVENT_VALUE
        /\ log[k].before.value /= <<>>
        /\ log[k + 1].from = advance_eof_state

\* C4: on a well-formed document the calls return, in order, one Section per
\* header and a Name then a Value per assignment, all with true, and the call
\* after the last of them returns false with End.
C4_WellFormedEvents ==
    input = Render(doc) =>
        \A k \in Calls :
            /\ k <= Len(Expected(doc)) =>
                   /\ log[k].ret
                   /\ log[k].type = Expected(doc)[k].type
                   /\ log[k].value = Expected(doc)[k].value
            /\ k = Len(Expected(doc)) + 1 => IsEnd(log[k])

\* index of the last character of the line terminator that starts at j
TerminatorEnd(j) ==
    IF input[j] = CR /\ j + 1 <= Len(input) /\ input[j + 1] = LF
    THEN j + 1 ELSE j

\* C5: when only spaces and tabs stand between '=' and a line terminator that
\* further lines follow, the call after the Name returns (Value, "") and the
\* parser continues in General right after that terminator.
C5_EmptyValueEndsAtTerminator ==
    \A k \in Calls : \A j \in 1..Len(input) :
        ( /\ log[k].from = advance_value_state
          /\ j > log[k].at
          /\ \A t \in (log[k].at + 1)..(j - 1) : input[t] \in {" ", TAB}
          /\ input[j] \in {CR, LF}
          /\ TerminatorEnd(j) < Len(input) ) =>
            /\ log[k].ret
            /\ log[k].type = EVENT_VALUE
            /\ log[k].value = <<>>
            /\ log[k].to = advance_gen_state
            /\ log[k].end = TerminatorEnd(j)

IsSuccess(r) == r.ret

SuccessfulEvents == SelectSeq(log, IsSuccess)

\* C6: the events returned with true form (Section (Name Value)*)*: each is a
\* Section, Name or Value, a Name or Value comes after some Section, a Name is
\* directly followed by a Value, and a Value directly follows a Name.
C6_Grammar ==
    \A k \in 1..Len(SuccessfulEvents) :
        /\ SuccessfulEvents[k].type \in Successful
        /\ SuccessfulEvents[k].type \in {EVENT_NAME, EVENT_VALUE} =>
               \E j \in 1..(k - 1) : SuccessfulEvents[j].type = EVENT_SECTION
        /\ (SuccessfulEvents[k].type = EVENT_NAME /\ k < Len(SuccessfulEvents)) =>
               SuccessfulEvents[k + 1].type = EVENT_VALUE
        /\ SuccessfulEvents[k].type = EVENT_VALUE =>
               (k > 1 /\ SuccessfulEvents[k - 1].type = EVENT_NAME)

\* C7: the text of every emitted Section, Name or Value event neither starts
\* nor ends with a whitespace character.
C7_Trimmed ==
    \A k \in Calls :
        (log[k].wrote /\ log[k].type \in Successful /\ log[k].value /= <<>>) =>
            /\ ~isspace(log[k].value[1])
            /\ ~isspace(log[k].value[Len(log[k].value)])

\* a Section whose header had whitespace right after '[' and right before ']'
C7_Witness ==
    \E k \in Calls :
        /\ log[k].wrote
        /\ log[k].type = EVENT_SECTION
        /\ log[k].value /= <<>>
        /\ input[log[k].end] = "]"
        /\ isspace(input[log[k].end - 1])
        /\ \E h \in (log[k].at + 1)..(log[k].end - 1) :
               input[h] = "[" /\ isspace(input[h + 1])

IsNumber(s) == s /= <<>> /\ \A j \in 1..Len(s) : s[j] \in Digits

IsDescription(d) ==
    \/ d \in {DescEndOfFile, DescEndOfLine, DescNewLine, DescComment, DescBracket}
    \/ Len(d) = 10 /\ d = DescSymbol(d[9])

\* v is <filename>:<line>:<column>: Unexpected token: <description>
HasErrorFormat(v) ==
    \E n1 \in 1..MaxDigits : \E n2 \in 1..MaxDigits :
        LET f == Len(filename_)
            t == f + n1 + n2 + 2
        IN  /\ Len(v) > t + Len(UnexpectedTokenText)
            /\ SubSeq(v, 1, f) = filename_
            /\ v[f + 1] = ":"
            /\ IsNumber(SubSeq(v, f + 2, f + 1 + n1))
            /\ v[f + 2 + n1] = ":"
            /\ IsNumber(SubSeq(v, f + 3 + n1, t))
            /\ SubSeq(v, t + 1, t + Len(UnexpectedTokenText)) = UnexpectedTokenText
            /\ IsDescription(SubSeq(v, t + Len(UnexpectedTokenText) + 1, Len(v)))

\* C8: the text of every Error event is exactly
\* <filename>:<line>:<column>: Unexpected token: <description>, whatever the
\* event record held before the call or accumulated during it.
C8_ErrorTextFormat ==
    \A k \in Calls :
        (log[k].wrote /\ log[k].type = EVENT_ERROR) => HasErrorFormat(log[k].value)

\* 1 + the number of line terminators that end before index j
LineOf(j) ==
    1 + Cardinality({t \in 1..(j - 1) :
            \/ input[t] = LF
            \/ input[t] = CR /\ ~(t + 1 < j /\ input[t + 1] = LF)})

\* 1-based index of character j within its line
ColumnOf(j) ==
    Cardinality({t \in 1..j : \A u \in t..(j - 1) : input[u] \notin {CR, LF}})

\* the call ended on the character its Error event is about
ErrorAtLastChar(r) ==
    /\ r.wrote
    /\ r.type = EVENT_ERROR
    /\ r.to /= advance_eof_state
    /\ r.end > r.at
    /\ ~(input[r.end] = LF /\ r.end > 1 /\ input[r.end - 1] = CR)

\* C9: a fresh parser is at line 1, column 0, and an Error event reports the
\* 1-based line and the 1-based column of the offending character.
C9_Position ==
    \A k \in Calls :
        ErrorAtLastChar(log[k]) =>
            /\ k = 1 => (log[k].line0 = 1 /\ log[k].pos0 = 0)
            /\ IsPrefix(filename_ \o <<":">> \o ToDecimal(LineOf(log[k].end))
                            \o <<":">> \o ToDecimal(ColumnOf(log[k].end))
                            \o UnexpectedTokenText,
                        log[k].value)

\* h is where a call that starts in General at stream index a finds '[':
\* only whitespace, line terminators and whole comment lines come before it
HeaderAt(a, h) ==
    /\ h \in (a + 1)..Len(input)
    /\ input[h] = "["
    /\ \A j \in (a + 1)..(h - 1) :
           \/ isspace(input[j])
           \/ \E c \in (a + 1)..j :
                  input[c] = ";" /\ \A t \in (c + 1)..j : input[t] \notin {CR, LF}
    /\ \A c \in (a + 1)..(h - 1) :
           input[c] = ";" => \E t \in (c + 1)..(h - 1) : input[t] \in {CR, LF}

\* the header opened at h meets the end of input before ']', ';' or the end of
\* its line
RunsToEndOfInput(h) ==
    \E w \in h..Len(input) :
        /\ \A j \in (h + 1)..w : isspace(input[j])
        /\ \A j \in (w + 1)..Len(input) : input[j] \notin {"]", ";", CR, LF}

\* C10: when the input ends between '[' and ']', the call returns false with
\* an Error event whose text starts with the filename and contains
\* "end of file", the parser is in Eof, and the next call returns End.
C10_EndOfFileInSection ==
    \A k \in Calls : \A h \in 1..Len(input) :
        ( /\ log[k].from = advance_gen_state
          /\ HeaderAt(log[k].at, h)
          /\ RunsToEndOfInput(h) ) =>
            /\ ~log[k].ret
            /\ log[k].wrote
            /\ log[k].type = EVENT_ERROR
            /\ IsPrefix(filename_, log[k].value)
            /\ Contains(log[k].value, DescEndOfFile)
            /\ log[k].to = advance_eof_state
            /\ (k + 1 \in Calls => IsEnd(log[k + 1]))

\* the input ended inside a header after name characters and a comment line,
\* and the next call was made
C10_Witness ==
    \E k \in Calls : \E h \in 1..Len(input) :
        /\ log[k].from = advance_gen_state
        /\ HeaderAt(log[k].at, h)
        /\ RunsToEndOfInput(h)
        /\ h < Len(input)
        /\ ~isspace(input[Len(input)])
        /\ k + 1 \in Calls

\* a call that starts in General at stream index a comes to character h:
\* only whitespace, line terminators and whole comment lines come before it
GeneralReaches(a, h) ==
    /\ h \in (a + 1)..Len(input)
    /\ \A j \in (a + 1)..(h - 1) :
           \/ isspace(input[j])
           \/ \E c \in (a + 1)..j :
                  input[c] = ";" /\ \A t \in (c + 1)..j : input[t] \notin {CR, LF}
    /\ \A c \in (a + 1)..(h - 1) :
           input[c] = ";" => \E t \in (c + 1)..(h - 1) : input[t] \in {CR, LF}

\* C11: when the first character a General call comes to is neither
\* whitespace, ';', '[' nor alphanumeric, the call returns false with an Error
\* event whose text contains symbol '<c>' for that character, and no Section,
\* Name or Value event.
C11_UnexpectedSymbol ==
    \A k \in Calls : \A h \in 1..Len(input) :
        ( /\ log[k].from = advance_gen_state
          /\ GeneralReaches(log[k].at, h)
          /\ ~isspace(input[h])
          /\ input[h] \notin {";", "["}
          /\ ~isalnum(input[h]) ) =>
            /\ ~log[k].ret
            /\ log[k].wrote
            /\ log[k].type = EVENT_ERROR
            /\ Contains(log[k].value, <<"s", "y", "m", "b", "o", "l", " ", "'">>
                                           \o <<input[h], "'">>)
            /\ log[k].end = h

\* the symbol was met after a line terminator or a comment line, not at the
\* start of the input
C11_Witness ==
    \E k \in Calls : \E h \in 1..Len(input) :
        /\ log[k].from = advance_gen_state
        /\ GeneralReaches(log[k].at, h)
        /\ ~isspace(input[h])
        /\ input[h] \notin {";", "["}
        /\ ~isalnum(input[h])
        /\ h > log[k].at + 1
        /\ log[k].type = EVENT_ERROR

\* C12: when a line terminator stands between '[' and the closing ']', also
\* directly after '[' or after spaces and tabs only, the call returns false
\* with an Error event about "end of line", never a Section event.
C12_HeaderOnOneLine ==
    \A k \in Calls : \A h \in 1..Len(input) : \A t \in 1..Len(input) :
        ( /\ log[k].from = advance_gen_state
          /\ HeaderAt(log[k].at, h)
          /\ t > h
          /\ input[t] \in {CR, LF}
          /\ \A j \in (h + 1)..(t - 1) : input[j] \notin {"]", ";", CR, LF}
          /\ \E q \in (t + 1)..Len(input) : input[q] = "]" ) =>
            /\ ~log[k].ret
            /\ log[k].wrote
            /\ log[k].type = EVENT_ERROR
            /\ Contains(log[k].value, <<"e", "n", "d", " ", "o", "f", " ",
                                        "l", "i", "n", "e">>)

\* number of line terminators (\n, \r\n counted once, lone \r) among the first
\* n characters of the input
TerminatorsIn(n) ==
    Cardinality({t \in 1..n :
        \/ input[t] = LF
        \/ input[t] = CR /\ ~(t + 1 <= Len(input) /\ input[t + 1] = LF)})

\* C13: after any sequence of successful advance calls the line counter has
\* advanced by exactly the number of line terminators consumed so far.
C13_LineCountsTerminators ==
    \A k \in Calls :
        (\A j \in 1..k : log[j].ret /\ log[j].type \in Successful) =>
            log[k].line = TerminatorsIn(log[k].end)

\* bool parser::advance(event &e): the call goes to the current state function
advance(m) ==
    IF m.state_ = advance_gen_state THEN advance_gen(m)
    ELSE IF m.state_ = advance_value_state THEN advance_value(m)
    ELSE advance_eof(m)

\* the machine the next advance call works on, given the finished call r
AfterCall(r) ==
    MachineOf(r.src,
              [in_ |-> StreamOf(r), state_ |-> r.state_, line_ |-> r.line_,
               pos_ |-> r.pos_],
              [type |-> r.type, value |-> r.value])

\* parser p(is); parser::event e; then n calls of p.advance(e) over the
\* content src, starting with the event ev: the results in call order
RECURSIVE Drive(_, _)
Drive(m, n) ==
    IF n = 0 THEN <<>>
    ELSE LET r == advance(m)
         IN  <<[ret |-> r.ret, type |-> r.type, value |-> r.value,
                wrote |-> r.assigned, end |-> r.i]>> \o Drive(AfterCall(r), n - 1)

ParseAgain(src, ev, n) ==
    Drive(MachineOf(src, [in_ |-> NewStream, state_ |-> advance_gen_state,
                          line_ |-> 0, pos_ |-> 0], ev), n)

\* the content s with every line terminator (\r\n, \n, lone \r) written as t
RECURSIVE WithTerminator(_, _)
WithTerminator(s, t) ==
    IF s = <<>> THEN <<>>
    ELSE IF s[1] = CR /\ Len(s) >= 2 /\ s[2] = LF
         THEN t \o WithTerminator(SubSeq(s, 3, Len(s)), t)
         ELSE IF s[1] \in {CR, LF}
              THEN t \o WithTerminator(Tail(s), t)
              ELSE <<s[1]>> \o WithTerminator(Tail(s), t)

\* what a caller sees of a call: return value, kind and text of a Section,
\* Name, Value or End event written by the call, nothing otherwise
Seen(r) ==
    IF r.wrote /\ r.type /= EVENT_ERROR
    THEN [ret |-> r.ret, type |-> r.type, value |-> r.value]
    ELSE [ret |-> r.ret, type |-> "none", value |-> <<>>]

\* C14: writing every line terminator of the input in another of the three
\* forms gives the same (return value, kind, text) for every call that yields
\* a Section, Name, Value or End event.
C14_TerminatorStyle ==
    \A t \in Terminators :
        log /= <<>> =>
            LET other == ParseAgain(WithTerminator(input, t), log[1].before,
                                    Len(log))
            IN  \A k \in Calls : Seen(log[k]) = Seen(other[k])

\* C15: a standalone comment read in the General state that runs to the end
\* of the input makes that call write (End, ""), return false and enter the
\* Eof state; no call that returns false leaves the event unwritten.
C15_CommentAtEndOfInput ==
    \A k \in Calls :
        /\ (/\ log[k].from = advance_gen_state
            /\ \E h \in 1..Len(input) :
                   /\ GeneralReaches(log[k].at, h)
                   /\ input[h] = ";"
                   /\ \A j \in (h + 1)..Len(input) : input[j] \notin {CR, LF})
           => IsEnd(log[k]) /\ log[k].to = advance_eof_state
        /\ ~log[k].ret => log[k].wrote

\* the text ' k=v\n' for each (Name k, Value v) pair of the events evs
RECURSIVE SerializePairs(_)
SerializePairs(evs) ==
    IF Len(evs) < 2 THEN <<>>
    ELSE <<" ">> \o evs[1].value \o <<"=">> \o evs[2].value \o <<LF>>
             \o SerializePairs(SubSeq(evs, 3, Len(evs)))

\* the text '[s]\n' followed by ' k=v\n' per pair, for the events
\* Section(s), (Name(k), Value(v))*
Serialize(evs) ==
    <<"[">> \o evs[1].value \o <<"]", LF>> \o SerializePairs(Tail(evs))

\* the calls so far gave Section(s), (Name(k), Value(v))*, all returned with
\* true and no token holding whitespace
IsSectionWithPairs ==
    /\ Len(log) % 2 = 1
    /\ \A k \in Calls :
           /\ log[k].ret /\ log[k].wrote
           /\ log[k].type = (IF k = 1 THEN EVENT_SECTION
                             ELSE IF k % 2 = 0 THEN EVENT_NAME ELSE EVENT_VALUE)
           /\ \A j \in 1..Len(log[k].value) : ~isspace(log[k].value[j])

\* C16: serializing an emitted event stream Section(s), (Name(k), Value(v))*
\* as '[s]\n' and ' k=v\n' per pair and parsing that text again yields the
\* same events, followed by End.
C16_RoundTrip ==
    IsSectionWithPairs =>
        LET again == ParseAgain(Serialize(log), log[1].before, Len(log) + 1)
        IN  /\ \A k \in Calls :
                   /\ again[k].ret = log[k].ret
                   /\ again[k].type = log[k].type
                   /\ again[k].value = log[k].value
            /\ IsEnd(again[Len(log) + 1])

\* C17: the call after one that gave a Name event returns true with a Value
\* event, and a Value event only comes from the call right after a Name event.
C17_ValueFollowsName ==
    \A k \in Calls :
        /\ (log[k].wrote /\ log[k].type = EVENT_NAME /\ k < Len(log))
           => /\ log[k + 1].ret
              /\ log[k + 1].wrote
              /\ log[k + 1].type = EVENT_VALUE
        /\ (log[k].wrote /\ log[k].type = EVENT_VALUE)
           => /\ k > 1
              /\ log[k - 1].ret
              /\ log[k - 1].wrote
              /\ log[k - 1].type = EVENT_NAME

\* a Name whose '=' is the last character of the input, then its empty Value
C17_Witness ==
    \E k \in Calls :
        /\ k < Len(log)
        /\ log[k].ret /\ log[k].wrote /\ log[k].type = EVENT_NAME
        /\ log[k].end = Len(input)
        /\ log[k + 1].ret /\ log[k + 1].wrote
        /\ log[k + 1].type = EVENT_VALUE /\ log[k + 1].value = <<>>

\* C18: an emitted Name is non-empty, starts with an alphanumeric character and
\* holds none of '=', ';', \r, \n; an emitted Section is non-empty and holds
\* none of ']', ';', \r, \n.
C18_TokenShape ==
    \A k \in Calls :
        /\ (log[k].wrote /\ log[k].type = EVENT_NAME)
           => /\ log[k].value /= <<>>
              /\ isalnum(log[k].value[1])
              /\ \A j \in 1..Len(log[k].value) :
                     log[k].value[j] \notin {"=", ";", CR, LF}
        /\ (log[k].wrote /\ log[k].type = EVENT_SECTION)
           => /\ log[k].value /= <<>>
              /\ \A j \in 1..Len(log[k].value) :
                     log[k].value[j] \notin {"]", ";", CR, LF}

\* a Section whose header has whitespace after '[' and a Name, both emitted
C18_Witness ==
    \E k, n \in Calls :
        /\ log[k].ret /\ log[k].wrote /\ log[k].type = EVENT_SECTION
        /\ \E h \in 1..(Len(input) - 1) :
               HeaderAt(log[k].at, h) /\ isspace(input[h + 1])
        /\ log[n].ret /\ log[n].wrote /\ log[n].type = EVENT_NAME

\* C19: every put_back returns the character of the read just before it, no
\* put_back follows a read that hit the end of the input, and at most one
\* character is pushed back at any time.
C19_SingleCharLookahead ==
    \A k \in Calls :
        /\ ~log[k].pb_other
        /\ ~log[k].pb_eof
        /\ log[k].pb_max <= 1

\* C20: a caller that keeps calling advance, also after Error events, receives
\* the End event within Len(input) + 2 calls.
C20_EndWithinBound ==
    Len(log) >= Len(input) + 2 =>
        \E k \in 1..(Len(input) + 2) : IsEnd(log[k])

====
